---- MODULE Spec2Model ----
(***************************************************************************)
(* Model of scripts/message_processor.py: the WifiScanMessageProcessor     *)
(* transcoder (serialize, gzip, base64 and their inverses) and the         *)
(* command line front end main().                                          *)
(*                                                                         *)
(* Text is a sequence of Unicode code points, bytes are a sequence of      *)
(* 0..255.  A call that may raise returns [ok, val, err]: ok = FALSE       *)
(* carries the exception's class name in err and <<>> in val.              *)
(***************************************************************************)
EXTENDS Integers, Sequences, FiniteSets, TLC

(***************************************************************************)
(* Bounds of the model.                                                    *)
(***************************************************************************)
\* longest raw string message, in code points
MaxLen == 2
\* longest base64 text handed directly to decode_base64, in characters
MaxB64Len == 5

(***************************************************************************)
(* Results of calls that may raise.                                        *)
(***************************************************************************)
Ok(v) == [ok |-> TRUE, val |-> v, err |-> "none"]
Raise(e) == [ok |-> FALSE, val |-> <<>>, err |-> e]

\* F applied to the value of v: v is evaluated once, however often F uses it
Bind(v, F(_)) == CHOOSE r \in {F(x) : x \in {v}} : TRUE

\* a function with domain 1..n as a tuple, its elements evaluated
AsTuple(f) == f \o <<>>

(***************************************************************************)
(* Bits and bytes.                                                         *)
(***************************************************************************)
Pow2(n) == 2 ^ n

\* the n low bits of v, most significant first (a Huffman code as DEFLATE packs it)
BitsMsb(v, n) == AsTuple([i \in 1..n |-> (v \div Pow2(n - i)) % 2])

\* the n low bits of v, least significant first
BitsLsb(v, n) == AsTuple([i \in 1..n |-> (v \div Pow2(i - 1)) % 2])

\* the value of bits[lo..hi] read least significant bit first
RECURSIVE ValLsb(_, _, _)
ValLsb(bits, lo, hi) == IF lo > hi THEN 0 ELSE bits[lo] + 2 * ValLsb(bits, lo + 1, hi)

\* the value of bits[lo..hi] read most significant bit first
RECURSIVE ValMsb(_, _, _)
ValMsb(bits, lo, hi) == IF lo > hi THEN 0 ELSE 2 * ValMsb(bits, lo, hi - 1) + bits[hi]

\* a bit stream packed into bytes, first bit in the low bit, zero padded
PackBits(bits) ==
    Bind(bits \o <<0, 0, 0, 0, 0, 0, 0>>, LAMBDA padded :
        AsTuple([j \in 1..(Len(padded) \div 8) |->
                    ValLsb(padded, 8 * j - 7, 8 * j)]))

\* the bit stream of a byte sequence, low bit of each byte first
UnpackBits(bytes) ==
    Bind(bytes, LAMBDA b :
        AsTuple([i \in 1..(8 * Len(b)) |-> (b[((i - 1) \div 8) + 1] \div Pow2((i - 1) % 8)) % 2]))

\* struct.pack("<L", n): four bytes, little endian (the value modulo 2^32)
LE32(n) == Bind(n, LAMBDA v : AsTuple([k \in 1..4 |-> (v \div (256 ^ (k - 1))) % 256]))

\* the concatenation of seqs[lo..hi]
RECURSIVE Flatten(_, _, _)
Flatten(seqs, lo, hi) ==
    IF lo > hi THEN <<>>
    ELSE IF lo = hi THEN seqs[lo]
    ELSE Flatten(seqs, lo, (lo + hi) \div 2) \o Flatten(seqs, ((lo + hi) \div 2) + 1, hi)

\* the concatenation of a sequence of sequences
Concat(seqs) == Bind(seqs, LAMBDA s : Flatten(s, 1, Len(s)))

(***************************************************************************)
(* zlib.crc32 over 32-bit words held as bit sequences (low bit first).     *)
(***************************************************************************)
XorBits(a, b) ==
    Bind(a, LAMBDA x : Bind(b, LAMBDA y : AsTuple([i \in 1..Len(x) |-> (x[i] + y[i]) % 2])))

\* the reflected CRC-32 polynomial 0xEDB88320, low bit first
CrcPoly == BitsLsb(33568, 16) \o BitsLsb(60856, 16)

ShiftRight1(w) == Tail(w) \o <<0>>

\* one bit of the register shifted out
CrcStep(w) ==
    Bind(w, LAMBDA v :
        IF v[1] = 1 THEN XorBits(ShiftRight1(v), CrcPoly) ELSE ShiftRight1(v))

\* one byte folded into the register: xor into the low byte, then eight shifts
CrcByte(w, b) ==
    CrcStep(CrcStep(CrcStep(CrcStep(CrcStep(CrcStep(CrcStep(CrcStep(
        XorBits(w, BitsLsb(b, 8) \o [i \in 1..24 |-> 0])))))))))

\* the register after bytes[lo..hi], from the register w
RECURSIVE CrcFold(_, _, _, _)
CrcFold(w, bytes, lo, hi) ==
    IF lo > hi THEN w
    ELSE IF lo = hi THEN CrcByte(w, bytes[lo])
    ELSE Bind(CrcFold(w, bytes, lo, (lo + hi) \div 2), LAMBDA mid :
            CrcFold(mid, bytes, ((lo + hi) \div 2) + 1, hi))

\* the four little-endian bytes of crc32(bytes)
Crc32LE(bytes) ==
    Bind(bytes, LAMBDA b :
    Bind(XorBits(CrcFold([i \in 1..32 |-> 1], b, 1, Len(b)), [i \in 1..32 |-> 1]),
         LAMBDA w : AsTuple([k \in 1..4 |-> ValLsb(w, 8 * k - 7, 8 * k)])))

(***************************************************************************)
(* str.encode('utf-8') and bytes.decode('utf-8').                          *)
(***************************************************************************)
IsSurrogate(cp) == cp >= 55296 /\ cp <= 57343

Utf8Char(cp) ==
    IF cp < 128 THEN <<cp>>
    ELSE IF cp < 2048 THEN <<192 + (cp \div 64), 128 + (cp % 64)>>
    ELSE IF cp < 65536
         THEN <<224 + (cp \div 4096), 128 + ((cp \div 64) % 64), 128 + (cp % 64)>>
    ELSE <<240 + (cp \div 262144), 128 + ((cp \div 4096) % 64),
           128 + ((cp \div 64) % 64), 128 + (cp % 64)>>

\* text.encode('utf-8'): a lone surrogate cannot be encoded
Utf8Encode(text) ==
    Bind(text, LAMBDA t :
        IF \E i \in 1..Len(t) : IsSurrogate(t[i])
        THEN Raise("UnicodeEncodeError")
        ELSE Ok(Concat([i \in 1..Len(t) |-> Utf8Char(t[i])])))

IsCont(b) == b >= 128 /\ b <= 191

\* the length of the UTF-8 form that lead byte b starts, 0 for a byte that starts none
Utf8Need(b) ==
    IF b < 128 THEN 1
    ELSE IF b >= 194 /\ b <= 223 THEN 2
    ELSE IF b >= 224 /\ b <= 239 THEN 3
    ELSE IF b >= 240 /\ b <= 244 THEN 4
    ELSE 0

\* the character at bytes[i]: [ok, cp, need]; overlong forms, surrogates and
\* stray bytes are rejected
Utf8One(bytes, i) ==
    LET b == bytes[i]
        need == Utf8Need(b)
        wellformed ==
            /\ need > 0
            /\ Len(bytes) >= i + need - 1
            /\ \A k \in 1..(need - 1) : IsCont(bytes[i + k])
            /\ (b = 224 => bytes[i + 1] >= 160)
            /\ (b = 237 => bytes[i + 1] <= 159)
            /\ (b = 240 => bytes[i + 1] >= 144)
            /\ (b = 244 => bytes[i + 1] <= 143)
        cp == CASE need = 1 -> b
                [] need = 2 -> (b - 192) * 64 + (bytes[i + 1] - 128)
                [] need = 3 -> (b - 224) * 4096 + (bytes[i + 1] - 128) * 64
                               + (bytes[i + 2] - 128)
                [] need = 4 -> (b - 240) * 262144 + (bytes[i + 1] - 128) * 4096
                               + (bytes[i + 2] - 128) * 64 + (bytes[i + 3] - 128)
                [] OTHER -> 0
    IN  IF wellformed THEN [ok |-> TRUE, cp |-> cp, need |-> need]
        ELSE [ok |-> FALSE, cp |-> 0, need |-> 0]

\* one character decoded from the decoder state st = [pos, out, ok, done]
Utf8Step(bytes, st) ==
    IF st.pos > Len(bytes) THEN [st EXCEPT !.done = TRUE]
    ELSE Bind(Utf8One(bytes, st.pos), LAMBDA c :
            IF ~c.ok THEN [st EXCEPT !.ok = FALSE, !.done = TRUE]
            ELSE [st EXCEPT !.pos = @ + c.need, !.out = Append(@, c.cp)])

\* the decoder state after the steps lo..hi, from the state st
RECURSIVE Utf8Fold(_, _, _, _)
Utf8Fold(bytes, st, lo, hi) ==
    IF st.done \/ lo > hi THEN st
    ELSE IF lo = hi THEN Utf8Step(bytes, st)
    ELSE Bind(Utf8Fold(bytes, st, lo, (lo + hi) \div 2), LAMBDA mid :
            Utf8Fold(bytes, mid, ((lo + hi) \div 2) + 1, hi))

\* fault: the bytes read as latin-1, one character a byte
Latin1Decode(bytes) == Ok(bytes)

\* bytes.decode('utf-8'), strict
Utf8Decode(bytes) ==
    Bind(bytes, LAMBDA b :
    Bind(Utf8Fold(b, [pos |-> 1, out |-> <<>>, ok |-> TRUE, done |-> FALSE],
                  1, Len(b) + 1), LAMBDA st :
        IF st.ok THEN Ok(st.out) ELSE Raise("UnicodeDecodeError")))

(***************************************************************************)
(* Messages and json.dumps(message, separators=(',', ':')).                *)
(* A JSON value is [kind, text, n, items]: kind "str" uses text (code      *)
(* points), kind "int" uses n, kind "dict" uses items, a sequence of       *)
(* <<key text, value>> pairs in insertion order.                           *)
(***************************************************************************)
StrVal(t) == [kind |-> "str", text |-> t, n |-> 0, items |-> <<>>]
IntVal(i) == [kind |-> "int", text |-> <<>>, n |-> i, items |-> <<>>]
DictVal(its) == [kind |-> "dict", text |-> <<>>, n |-> 0, items |-> its]

HexDigit(d) == IF d < 10 THEN 48 + d ELSE 97 + (d - 10)

\* '\\u{0:04x}'.format(n)
UEscape(n) ==
    <<92, 117, HexDigit((n \div 4096) % 16), HexDigit((n \div 256) % 16),
      HexDigit((n \div 16) % 16), HexDigit(n % 16)>>

\* one character of py_encode_basestring_ascii (ensure_ascii=True)
EscapeChar(cp) ==
    CASE cp = 34 -> <<92, 34>>
      [] cp = 92 -> <<92, 92>>
      [] cp = 10 -> <<92, 110>>
      [] cp = 13 -> <<92, 114>>
      [] cp = 9  -> <<92, 116>>
      [] cp = 12 -> <<92, 102>>
      [] cp = 8  -> <<92, 98>>
      [] cp >= 32 /\ cp <= 126 /\ cp # 34 /\ cp # 92 -> <<cp>>
      [] cp >= 65536 ->
            UEscape(55296 + (((cp - 65536) \div 1024) % 1024))
            \o UEscape(56320 + ((cp - 65536) % 1024))
      [] OTHER -> UEscape(cp)

JsonString(text) ==
    Bind(text, LAMBDA t :
        <<34>> \o Concat([i \in 1..Len(t) |-> EscapeChar(t[i])]) \o <<34>>)

RECURSIVE Digits(_)
Digits(n) == IF n < 10 THEN <<48 + n>> ELSE Digits(n \div 10) \o <<48 + (n % 10)>>

\* int.__repr__
IntRepr(i) == IF i < 0 THEN <<45>> \o Digits(0 - i) ELSE Digits(i)

\* json.dumps(value, separators=(',', ':'))
RECURSIVE JsonDumps(_)
JsonDumps(v) ==
    CASE v.kind = "str"  -> JsonString(v.text)
      [] v.kind = "int"  -> IntRepr(v.n)
      [] v.kind = "dict" ->
            <<123>>
            \o Concat([i \in 1..Len(v.items) |->
                    (IF i > 1 THEN <<44>> ELSE <<>>)
                    \o JsonString(v.items[i][1]) \o <<58>> \o JsonDumps(v.items[i][2])])
            \o <<125>>

(***************************************************************************)
(* zlib raw DEFLATE, as gzip.compress / gzip.decompress use it.            *)
(* Deflate is zlib's deflate_slow at level 6 (lazy matching, max_lazy 16)  *)
(* writing one final fixed-Huffman block: what zlib writes for a short     *)
(* input (the block type zlib picks for longer or high-entropy inputs,     *)
(* stored or dynamic, and the limits on its hash chains are not modelled). *)
(* Inflate reads stored and fixed-Huffman blocks; a dynamic block answers  *)
(* "Unmodelled".                                                           *)
(***************************************************************************)
RECURSIVE Log2(_)
Log2(x) == IF x < 2 THEN 0 ELSE 1 + Log2(x \div 2)

\* the fixed Huffman code of a literal byte (RFC 1951, 3.2.6)
FixedCode(lit) == IF lit <= 143 THEN BitsMsb(48 + lit, 8) ELSE BitsMsb(400 + (lit - 144), 9)

\* the fixed Huffman code of a length symbol 257..285 and its extra bits
LengthBits(length) ==
    LET x == length - 3
        e == IF x < 8 \/ length = 258 THEN 0 ELSE Log2(x) - 2
        sym == IF length = 258 THEN 285 ELSE 257 + 4 * e + (x \div Pow2(e))
    IN  (IF sym <= 279 THEN BitsMsb(sym - 256, 7) ELSE BitsMsb(192 + (sym - 280), 8))
        \o BitsLsb(x % Pow2(e), e)

\* the five-bit code of a distance and its extra bits
DistanceBits(distance) ==
    LET x == distance - 1
        e == IF x < 4 THEN 0 ELSE Log2(x) - 1
    IN  BitsMsb(2 * e + (x \div Pow2(e)), 5) \o BitsLsb(x % Pow2(e), e)

\* how far data[i..] and data[j..] agree, at most cap bytes
MatchLen(data, i, j, cap) ==
    CHOOSE k \in 0..cap :
        /\ \A m \in 0..(k - 1) : data[i + m] = data[j + m]
        /\ k = cap \/ data[i + k] # data[j + k]

\* longest_match: the longest match of data[i..] with an earlier position that is
\* longer than prev_length, the nearest of the longest; the first position of
\* the window is never a candidate (its index is zlib's NIL)
LongestMatch(data, i, prev_length) ==
    Bind(IF Len(data) - i + 1 < 258 THEN Len(data) - i + 1 ELSE 258, LAMBDA cap :
    Bind(AsTuple([j \in 1..(i - 1) |-> IF j = 1 THEN 0 ELSE MatchLen(data, i, j, cap)]),
         LAMBDA lens :
    Bind(CHOOSE j \in 1..(i - 1) :
            \A k \in 1..(i - 1) : lens[k] < lens[j] \/ (lens[k] = lens[j] /\ k <= j),
         LAMBDA best :
        IF lens[best] > prev_length
        THEN [match_length |-> lens[best], match_start |-> best]
        ELSE [match_length |-> 2, match_start |-> 0])))

\* one turn of deflate_slow's loop from the state s = [strstart, prev_length,
\* prev_match, match_available, bits, done]
DeflateStep(data, s) ==
    IF s.strstart > Len(data)
    THEN [s EXCEPT !.done = TRUE,
                   !.bits = IF s.match_available THEN @ \o FixedCode(data[Len(data)])
                            ELSE @]
    ELSE Bind(IF s.strstart > 1 /\ s.strstart + 2 <= Len(data) /\ s.prev_length < 16
              THEN LongestMatch(data, s.strstart, s.prev_length)
              ELSE [match_length |-> 2, match_start |-> 0], LAMBDA m :
            IF s.prev_length >= 3 /\ m.match_length <= s.prev_length
            THEN [s EXCEPT !.bits = @ \o LengthBits(s.prev_length)
                                      \o DistanceBits((s.strstart - 1) - s.prev_match),
                           !.strstart = (s.strstart - 1) + s.prev_length,
                           !.prev_length = 2,
                           !.match_available = FALSE]
            ELSE [s EXCEPT !.bits = IF s.match_available
                                    THEN @ \o FixedCode(data[s.strstart - 1])
                                    ELSE @,
                           !.strstart = s.strstart + 1,
                           !.prev_length = m.match_length,
                           !.prev_match = m.match_start,
                           !.match_available = TRUE])

\* the state after the turns lo..hi of the loop, from the state s
RECURSIVE DeflateFold(_, _, _, _)
DeflateFold(data, s, lo, hi) ==
    IF s.done \/ lo > hi THEN s
    ELSE IF lo = hi THEN DeflateStep(data, s)
    ELSE Bind(DeflateFold(data, s, lo, (lo + hi) \div 2), LAMBDA mid :
            DeflateFold(data, mid, ((lo + hi) \div 2) + 1, hi))

\* zlib.compress(data, level, wbits=-15)
Deflate(data) ==
    Bind(data, LAMBDA d :
    Bind(DeflateFold(d, [strstart |-> 1, prev_length |-> 2, prev_match |-> 0,
                         match_available |-> FALSE, bits |-> <<1, 1, 0>>,
                         done |-> FALSE], 1, Len(d) + 1), LAMBDA s :
        PackBits(s.bits \o BitsMsb(0, 7))))

\* the fixed-Huffman symbol at bit pos: [kind, sym, next], kind one of "literal",
\* "length", "end", "error" (no such symbol) and "EOFError" (the stream stops short)
FixedSymbol(bits, pos) ==
    LET n == Len(bits)
        c7 == ValMsb(bits, pos, pos + 6)
        c8 == ValMsb(bits, pos, pos + 7)
        c9 == ValMsb(bits, pos, pos + 8)
        symbol(k, v, nx) == [kind |-> k, sym |-> v, next |-> nx]
    IN  IF pos + 6 > n THEN symbol("EOFError", 0, pos)
        ELSE IF c7 = 0 THEN symbol("end", 256, pos + 7)
        ELSE IF c7 <= 23 THEN symbol("length", 256 + c7, pos + 7)
        ELSE IF pos + 7 > n THEN symbol("EOFError", 0, pos)
        ELSE IF c8 >= 48 /\ c8 <= 191 THEN symbol("literal", c8 - 48, pos + 8)
        ELSE IF c8 >= 192 /\ c8 <= 197 THEN symbol("length", 280 + (c8 - 192), pos + 8)
        ELSE IF c8 >= 198 /\ c8 <= 199 THEN symbol("error", 0, pos)
        ELSE IF pos + 8 > n THEN symbol("EOFError", 0, pos)
        ELSE symbol("literal", 144 + (c9 - 400), pos + 9)

\* the match a length symbol starts, its extra bits from bit pos on:
\* [err, length, distance, next]
FixedMatch(bits, pos, sym) ==
    LET n == Len(bits)
        k == sym - 257
        le == IF k < 8 \/ sym = 285 THEN 0 ELSE (k \div 4) - 1
        length == IF sym = 285 THEN 258
                  ELSE IF k < 8 THEN 3 + k
                  ELSE 3 + (4 + (k % 4)) * Pow2(le) + ValLsb(bits, pos, pos + le - 1)
        dpos == pos + le
        dcode == ValMsb(bits, dpos, dpos + 4)
        de == IF dcode < 4 THEN 0 ELSE (dcode \div 2) - 1
        distance == IF dcode < 4 THEN dcode + 1
                    ELSE 1 + (2 + (dcode % 2)) * Pow2(de)
                         + ValLsb(bits, dpos + 5, dpos + 4 + de)
        match(e, l, d, nx) == [err |-> e, length |-> l, distance |-> d, next |-> nx]
    IN  IF dpos + 4 > n THEN match("EOFError", 0, 0, pos)
        ELSE IF dcode >= 30 THEN match("error", 0, 0, pos)
        ELSE IF dpos + 4 + de > n THEN match("EOFError", 0, 0, pos)
        ELSE match("none", length, distance, dpos + 5 + de)

\* one symbol of a fixed-Huffman block read from the state st = [ok, val, err,
\* pos, done]
FixedStep(bits, st) ==
    LET fail(e) == [st EXCEPT !.ok = FALSE, !.val = <<>>, !.err = e, !.done = TRUE]
    IN  Bind(FixedSymbol(bits, st.pos), LAMBDA s :
            IF s.kind = "end" THEN [st EXCEPT !.pos = s.next, !.done = TRUE]
            ELSE IF s.kind = "literal"
            THEN [st EXCEPT !.pos = s.next, !.val = Append(@, s.sym)]
            ELSE IF s.kind = "length"
            THEN Bind(FixedMatch(bits, s.next, s.sym), LAMBDA m :
                    IF m.err # "none" THEN fail(m.err)
                    ELSE IF m.distance > Len(st.val) THEN fail("error")
                    ELSE [st EXCEPT
                            !.pos = m.next,
                            !.val = @ \o [k \in 1..m.length |->
                                @[Len(@) - m.distance + 1 + ((k - 1) % m.distance)]]])
            ELSE fail(s.kind))

\* the state after the symbols lo..hi of a fixed-Huffman block, from the state st
RECURSIVE FixedFold(_, _, _, _)
FixedFold(bits, st, lo, hi) ==
    IF st.done \/ lo > hi THEN st
    ELSE IF lo = hi THEN FixedStep(bits, st)
    ELSE Bind(FixedFold(bits, st, lo, (lo + hi) \div 2), LAMBDA mid :
            FixedFold(bits, mid, ((lo + hi) \div 2) + 1, hi))

\* the symbols of a fixed-Huffman block from bit pos on: [ok, val, err, pos]
InflateFixed(bits, pos, out) ==
    Bind(FixedFold(bits, [ok |-> TRUE, val |-> out, err |-> "none", pos |-> pos,
                          done |-> FALSE], 1, Len(bits)), LAMBDA st :
        [ok |-> st.ok, val |-> st.val, err |-> st.err, pos |-> st.pos])

\* a stored block whose header ends at bit pos - 1: [ok, val, err, pos]
InflateStored(bits, pos, out) ==
    LET n == Len(bits)
        \* the block starts at the next byte boundary
        start == 8 * ((pos - 1 + 7) \div 8) + 1
        len == ValLsb(bits, start, start + 15)
        nlen == ValLsb(bits, start + 16, start + 31)
        body == start + 32
        fail(e) == [ok |-> FALSE, val |-> <<>>, err |-> e, pos |-> pos]
    IN  IF start + 31 > n THEN fail("EOFError")
        ELSE IF len + nlen # 65535 THEN fail("error")
        ELSE IF body + 8 * len - 1 > n THEN fail("EOFError")
        ELSE [ok |-> TRUE,
              val |-> out \o [k \in 1..len |-> ValLsb(bits, body + 8 * k - 8, body + 8 * k - 1)],
              err |-> "none", pos |-> body + 8 * len]

\* the blocks of a raw DEFLATE stream from bit pos on: [ok, val, err, pos]
RECURSIVE InflateBlocks(_, _, _)
InflateBlocks(bits, pos, out) ==
    IF pos + 2 > Len(bits) THEN [ok |-> FALSE, val |-> <<>>, err |-> "EOFError", pos |-> pos]
    ELSE
      LET bfinal == bits[pos]
          btype == bits[pos + 1] + 2 * bits[pos + 2]
          block ==
              CASE btype = 1 -> InflateFixed(bits, pos + 3, out)
                [] btype = 0 -> InflateStored(bits, pos + 3, out)
                [] btype = 2 -> [ok |-> FALSE, val |-> <<>>, err |-> "Unmodelled", pos |-> pos]
                [] OTHER -> [ok |-> FALSE, val |-> <<>>, err |-> "error", pos |-> pos]
      IN  Bind(block, LAMBDA b :
            IF b.ok /\ bfinal = 0 THEN InflateBlocks(bits, b.pos, b.val) ELSE b)

\* zlib.decompressobj(wbits=-15).decompress(data): the output and unused_data
Inflate(data) ==
    Bind(data, LAMBDA d :
    Bind(UnpackBits(d), LAMBDA bits :
    Bind(InflateBlocks(bits, 1, <<>>), LAMBDA r :
        [ok |-> r.ok, val |-> r.val, err |-> r.err,
         unused |-> IF r.ok THEN SubSeq(d, (((r.pos - 1) + 7) \div 8) + 1, Len(d))
                    ELSE <<>>])))

(***************************************************************************)
(* gzip.compress and gzip.decompress.                                      *)
(***************************************************************************)
\* self.compression_level
compression_level == 6

\* _create_simple_gzip_header(compresslevel, mtime)
GzipHeader(level, mtime) ==
    <<31, 139, 8, 0>> \o LE32(mtime)
    \o <<(IF level = 9 THEN 2 ELSE IF level = 1 THEN 4 ELSE 0), 255>>

\* gzip.compress(data, compresslevel=level) at clock reading mtime (never 0)
GzipCompress(data, level, mtime) ==
    Bind(data, LAMBDA d :
        GzipHeader(level, mtime) \o Deflate(d) \o Crc32LE(d) \o LE32(Len(d)))

RECURSIVE LStripZero(_)
LStripZero(bytes) ==
    IF bytes # <<>> /\ Head(bytes) = 0 THEN LStripZero(Tail(bytes)) ELSE bytes

\* gzip.decompress(data): every member of the stream, concatenated
RECURSIVE GzipMembers(_, _)
GzipMembers(data, acc) ==
    IF data = <<>> THEN Ok(acc)
    ELSE IF Len(data) < 2 \/ SubSeq(data, 1, 2) # <<31, 139>> THEN Raise("BadGzipFile")
    ELSE IF Len(data) < 10 THEN Raise("EOFError")
    ELSE IF data[3] # 8 THEN Raise("BadGzipFile")
    ELSE IF data[4] # 0 THEN Raise("Unmodelled")
    ELSE Bind(Inflate(SubSeq(data, 11, Len(data))), LAMBDA do :
          IF ~do.ok /\ do.err # "EOFError" THEN Raise(do.err)
          ELSE IF ~do.ok \/ Len(do.unused) < 8 THEN Raise("EOFError")
          ELSE IF SubSeq(do.unused, 1, 4) # Crc32LE(do.val) THEN Raise("BadGzipFile")
          ELSE IF SubSeq(do.unused, 5, 8) # LE32(Len(do.val)) THEN Raise("BadGzipFile")
          ELSE Bind(LStripZero(SubSeq(do.unused, 9, Len(do.unused))), LAMBDA rest :
               Bind(acc \o do.val, LAMBDA a : GzipMembers(rest, a))))

GzipDecompress(data) == Bind(data, LAMBDA d : GzipMembers(d, <<>>))

(***************************************************************************)
(* base64.b64encode and base64.b64decode (validate=False).                 *)
(***************************************************************************)
\* the character of a six-bit value in the standard alphabet
B64Char(v) ==
    IF v < 26 THEN 65 + v
    ELSE IF v < 52 THEN 97 + (v - 26)
    ELSE IF v < 62 THEN 48 + (v - 52)
    ELSE IF v = 62 THEN 43
    ELSE 47

\* table_a2b_base64: the six-bit value of a character, 64 outside the alphabet
B64Value(c) ==
    IF c >= 65 /\ c <= 90 THEN c - 65
    ELSE IF c >= 97 /\ c <= 122 THEN 26 + (c - 97)
    ELSE IF c >= 48 /\ c <= 57 THEN 52 + (c - 48)
    ELSE IF c = 43 THEN 62
    ELSE IF c = 47 THEN 63
    ELSE 64

\* the group of up to three bytes data[lo..hi] as four characters, padded with '='
B64Group(data, lo, hi) ==
    IF hi = lo
    THEN <<B64Char(data[lo] \div 4), B64Char((data[lo] % 4) * 16), 61, 61>>
    ELSE IF hi = lo + 1
    THEN <<B64Char(data[lo] \div 4), B64Char((data[lo] % 4) * 16 + (data[hi] \div 16)),
           B64Char((data[hi] % 16) * 4), 61>>
    ELSE <<B64Char(data[lo] \div 4),
           B64Char((data[lo] % 4) * 16 + (data[lo + 1] \div 16)),
           B64Char((data[lo + 1] % 16) * 4 + (data[hi] \div 64)),
           B64Char(data[hi] % 64)>>

\* base64.b64encode(data).decode('utf-8')
B64Encode(data) ==
    Bind(data, LAMBDA d :
        Concat([k \in 1..((Len(d) + 2) \div 3) |->
            B64Group(d, 3 * k - 2, IF 3 * k <= Len(d) THEN 3 * k ELSE Len(d))]))

\* binascii.a2b_base64(s, strict_mode=False), one character c from the decoder
\* state st = [quad_pos, leftchar, pads, out, done]: a character outside the
\* alphabet is skipped, a complete padding ends the decoding
A2bStep(st, c) ==
    LET v == B64Value(c)
    IN  IF st.done THEN st
        ELSE IF c = 61
        THEN IF st.quad_pos >= 2 /\ st.quad_pos + st.pads + 1 >= 4
             THEN [st EXCEPT !.done = TRUE]
             ELSE [st EXCEPT !.pads = IF st.quad_pos >= 2 THEN @ + 1 ELSE @]
        ELSE IF v >= 64 THEN st
        ELSE CASE st.quad_pos = 0 ->
                    [st EXCEPT !.quad_pos = 1, !.leftchar = v, !.pads = 0]
               [] st.quad_pos = 1 ->
                    [st EXCEPT !.quad_pos = 2, !.leftchar = v % 16, !.pads = 0,
                               !.out = Append(@, st.leftchar * 4 + (v \div 16))]
               [] st.quad_pos = 2 ->
                    [st EXCEPT !.quad_pos = 3, !.leftchar = v % 4, !.pads = 0,
                               !.out = Append(@, st.leftchar * 16 + (v \div 4))]
               [] OTHER ->
                    [st EXCEPT !.quad_pos = 0, !.leftchar = 0, !.pads = 0,
                               !.out = Append(@, st.leftchar * 64 + v)]

\* the decoder state after the characters s[lo..hi], from the state st
RECURSIVE A2bFold(_, _, _, _)
A2bFold(st, s, lo, hi) ==
    IF lo > hi THEN st
    ELSE IF lo = hi THEN A2bStep(st, s[lo])
    ELSE Bind(A2bFold(st, s, lo, (lo + hi) \div 2), LAMBDA mid :
            IF mid.done THEN mid ELSE A2bFold(mid, s, ((lo + hi) \div 2) + 1, hi))

A2bBase64(s) ==
    Bind(s, LAMBDA b :
    Bind(A2bFold([quad_pos |-> 0, leftchar |-> 0, pads |-> 0, out |-> <<>>,
                  done |-> FALSE], b, 1, Len(b)), LAMBDA st :
        IF st.done \/ st.quad_pos = 0 THEN Ok(st.out) ELSE Raise("binascii.Error")))

\* base64.b64decode(text.encode('utf-8'))
B64Decode(text) ==
    Bind(Utf8Encode(text), LAMBDA raw : IF raw.ok THEN A2bBase64(raw.val) ELSE raw)

(***************************************************************************)
(* WifiScanMessageProcessor.                                               *)
(***************************************************************************)
\* str(message) for a message that is not a dict
PyStr(message) == IF message.kind = "int" THEN IntRepr(message.n) ELSE message.text

\* compress_message(message), gzip reading the clock as mtime
compress_message(message, mtime) ==
    Bind(IF message.kind = "dict" THEN JsonDumps(message) ELSE PyStr(message),
         LAMBDA message_str :
    Bind(Utf8Encode(message_str), LAMBDA encoded :
        IF encoded.ok THEN Ok(GzipCompress(encoded.val, compression_level, mtime))
        ELSE encoded))

\* decompress_message(compressed_data)
decompress_message(compressed_data) ==
    Bind(GzipDecompress(compressed_data), LAMBDA raw :
        IF raw.ok THEN Utf8Decode(raw.val) ELSE raw)

\* encode_base64(data)
encode_base64(data) == B64Encode(data)

\* decode_base64(encoded_data)
decode_base64(encoded_data) == B64Decode(encoded_data)

\* round(x, 2) of the exact quotient num / den (den > 0), in hundredths: the
\* nearest, a tie to the even one (a tie needs den to be a multiple of 32; no
\* size of this model is)
RoundHundredths(num, den) ==
    LET q == (100 * num) \div den
        r == (100 * num) - q * den
    IN  IF 2 * r < den THEN q
        ELSE IF 2 * r > den THEN q + 1
        ELSE IF q % 2 = 0 THEN q ELSE q + 1

\* fault: the share that is left, not the share that is saved
CompressionRatioLeft(original_size, compressed_size) ==
    IF original_size > 0 THEN RoundHundredths(100 * compressed_size, original_size) ELSE 0

\* (1 - compressed_size / original_size) * 100 if original_size > 0 else 0,
\* rounded to two places; the value is held in hundredths of a percent
CompressionRatio(original_size, compressed_size) ==
    IF original_size > 0
    THEN RoundHundredths(100 * (original_size - compressed_size), original_size)
    ELSE 0

\* fault: original_size counts the characters of the text, not its bytes
process_message_len_chars(message, mtime, now) ==
    Bind(IF message.kind = "dict" THEN JsonDumps(message) ELSE PyStr(message),
         LAMBDA original_json :
    Bind(compress_message(message, mtime), LAMBDA compressed :
    Bind(encode_base64(compressed.val), LAMBDA encoded_data :
        IF ~compressed.ok THEN Raise(compressed.err)
        ELSE Ok([original_size |-> Len(original_json),
                 compressed_size |-> Len(compressed.val),
                 encoded_size |-> Len(encoded_data),
                 compression_ratio |->
                     CompressionRatio(Len(original_json), Len(compressed.val)),
                 compressed_data |-> compressed.val,
                 encoded_data |-> encoded_data,
                 processing_timestamp |-> <<now, "Z">>]))))

\* process_message(message): gzip reads the clock as mtime, utcnow() reads it as now
process_message(message, mtime, now) ==
    Bind(IF message.kind = "dict" THEN JsonDumps(message) ELSE PyStr(message),
         LAMBDA original_json :
    Bind(Utf8Encode(original_json), LAMBDA original_bytes :
    Bind(compress_message(message, mtime), LAMBDA compressed :
    Bind(encode_base64(compressed.val), LAMBDA encoded_data :
    Bind(Utf8Encode(encoded_data), LAMBDA encoded_bytes :
        IF ~original_bytes.ok THEN Raise(original_bytes.err)
        ELSE IF ~compressed.ok THEN Raise(compressed.err)
        ELSE Ok([original_size |-> Len(original_bytes.val),
                 compressed_size |-> Len(compressed.val),
                 encoded_size |-> Len(encoded_bytes.val),
                 compression_ratio |->
                     CompressionRatio(Len(original_bytes.val), Len(compressed.val)),
                 compressed_data |-> compressed.val,
                 encoded_data |-> encoded_data,
                 processing_timestamp |-> <<now, "Z">>]))))))

\* fault: a record_id that is given is threaded into the record
create_firehose_payload_with_id(message, record_id, mtime, now) ==
    Bind(process_message(message, mtime, now), LAMBDA processed :
        IF ~processed.ok THEN processed
        ELSE IF record_id = <<>>
        THEN Ok([DeliveryStreamName |-> "MVS-stream",
                 Record |-> [Data |-> processed.val.encoded_data]])
        ELSE Ok([DeliveryStreamName |-> "MVS-stream",
                 Record |-> [Data |-> processed.val.encoded_data,
                             RecordId |-> record_id]]))

\* create_firehose_payload(message, record_id)
create_firehose_payload(message, record_id, mtime, now) ==
    Bind(process_message(message, mtime, now), LAMBDA processed :
        IF ~processed.ok THEN processed
        ELSE Ok([DeliveryStreamName |-> "MVS-stream",
                 Record |-> [Data |-> processed.val.encoded_data]]))

(***************************************************************************)
(* Inputs of the model.                                                    *)
(***************************************************************************)
\* the code points of raw string messages: 'a', U+00E9 and the lone surrogate U+D800
Chars == {97, 233, 55296}

Texts(chars, maxlen) == UNION {[1..n -> chars] : n \in 0..maxlen}

\* {}, {"a":1}, {"a":-65,"b":"é"} and {"s":"\ud800"}
Dicts ==
    {DictVal(<<>>),
     DictVal(<< <<(<<97>>), IntVal(1)>> >>),
     DictVal(<< <<(<<97>>), IntVal(0 - 65)>>, <<(<<98>>), StrVal(<<233>>)>> >>),
     DictVal(<< <<(<<115>>), StrVal(<<55296>>)>> >>)}

\* 'a' * 23 and 'a' * 24: texts gzip does not grow
Runs == {[i \in 1..n |-> 97] : n \in {23, 24}}

Messages == {StrVal(t) : t \in Texts(Chars, MaxLen) \cup Runs} \cup Dicts

\* readings of the clock (seconds since the epoch)
Clocks == {1700000000, 1700000001}

\* record_id arguments: None and 'r1'
RecordIds == {<<>>, <<114, 49>>}

\* characters of base64 texts handed to decode_base64: 'Y', 'Q', '=', '!'
B64Chars == {89, 81, 61, 33}

(***************************************************************************)
(* State.                                                                  *)
(***************************************************************************)
VARIABLES
    pc,         \* "idle", "returned" after a call of the processor, or main()'s position
    call,       \* the processor calls made so far and their inputs
    ret,        \* what the last processor call returned or raised
    args,       \* main(): the argparse namespace
    local,      \* main(): message and result
    stdout,     \* main(): what was printed to sys.stdout, in order
    stderr,     \* main(): what was printed to sys.stderr, in order
    files,      \* main(): content of the files written
    exit_code   \* main(): the process exit status, -1 while running

vars == <<pc, call, ret, args, local, stdout, stderr, files, exit_code>>

NoCall == [ops |-> <<>>, message |-> StrVal(<<>>), text |-> <<>>, record_id |-> <<>>,
           mtime |-> 0, now |-> 0]

NoArgs == [file |-> <<>>, json |-> <<>>, output |-> <<>>, base64 |-> <<>>,
           compress |-> FALSE, decompress |-> FALSE, firehose |-> FALSE, verbose |-> FALSE]

NoLocal == [message |-> StrVal(<<>>), result |-> Raise("unset"), mode |-> "none",
            source |-> "none", wrapped |-> FALSE, caught |-> "none"]

mainVars == <<args, local, stdout, stderr, files, exit_code>>

Init ==
    /\ pc = "idle"
    /\ call = NoCall
    /\ ret = Raise("unset")
    /\ args = NoArgs
    /\ local = NoLocal
    /\ stdout = <<>>
    /\ stderr = <<>>
    /\ files = <<>>
    /\ exit_code = -1

(***************************************************************************)
(* Calls of the processor's methods.  The byte and text methods chain: the *)
(* result of one call is the argument of the next.                         *)
(***************************************************************************)
\* the most calls in one chain
MaxCalls == 4

LastOp == IF call.ops = <<>> THEN "none" ELSE call.ops[Len(call.ops)]

HoldsBytes == pc = "returned" /\ ret.ok /\ LastOp \in {"compress_message", "decode_base64"}
HoldsText == pc = "returned" /\ ret.ok /\ LastOp \in {"encode_base64", "decompress_message"}

CallCompressMessage ==
    /\ pc = "idle"
    /\ \E m \in Messages, t \in Clocks :
        /\ call' = [NoCall EXCEPT !.ops = <<"compress_message">>, !.message = m, !.mtime = t]
        /\ ret' = compress_message(m, t)
    /\ pc' = "returned"
    /\ UNCHANGED mainVars

CallEncodeBase64 ==
    /\ HoldsBytes
    /\ Len(call.ops) < MaxCalls
    /\ call' = [call EXCEPT !.ops = Append(@, "encode_base64")]
    /\ ret' = Ok(encode_base64(ret.val))
    /\ UNCHANGED <<pc, mainVars>>

CallDecodeBase64 ==
    /\ \/ /\ pc = "idle"
          /\ \E t \in Texts(B64Chars, MaxB64Len) :
                /\ call' = [NoCall EXCEPT !.ops = <<"decode_base64">>, !.text = t]
                /\ ret' = decode_base64(t)
       \/ /\ HoldsText
          /\ Len(call.ops) < MaxCalls
          /\ call' = [call EXCEPT !.ops = Append(@, "decode_base64")]
          /\ ret' = decode_base64(ret.val)
    /\ pc' = "returned"
    /\ UNCHANGED mainVars

CallDecompressMessage ==
    /\ HoldsBytes
    /\ Len(call.ops) < MaxCalls
    /\ call' = [call EXCEPT !.ops = Append(@, "decompress_message")]
    /\ ret' = decompress_message(ret.val)
    /\ UNCHANGED <<pc, mainVars>>

CallProcessMessage ==
    /\ pc = "idle"
    /\ \E m \in Messages, t \in Clocks, n \in Clocks :
        /\ t <= n
        /\ call' = [NoCall EXCEPT !.ops = <<"process_message">>, !.message = m,
                                  !.mtime = t, !.now = n]
        /\ ret' = process_message(m, t, n)
    /\ pc' = "returned"
    /\ UNCHANGED mainVars

CallCreateFirehosePayload ==
    /\ pc = "idle"
    /\ \E m \in Messages, r \in RecordIds, t \in Clocks, n \in Clocks :
        /\ t <= n
        /\ call' = [NoCall EXCEPT !.ops = <<"create_firehose_payload">>, !.message = m,
                                  !.record_id = r, !.mtime = t, !.now = n]
        /\ ret' = create_firehose_payload(m, r, t, n)
    /\ pc' = "returned"
    /\ UNCHANGED mainVars

(***************************************************************************)
(* main(): the environment.  An option that is absent (None) or given as   *)
(* the empty string is <<>>: main() tests options by truthiness only.      *)
(***************************************************************************)
\* the text of {"a":1}
GoodJsonText == JsonDumps(DictVal(<< <<(<<97>>), IntVal(1)>> >>))

\* the text of a lone '{'
BadJsonText == <<123>>

\* --file values: none, a file of valid JSON, a file of invalid JSON, no such file
FileArgs == {<<>>, <<"good.json">>, <<"bad.json">>, <<"missing.json">>}

FileExists(path) == path \in {<<"good.json">>, <<"bad.json">>}

FileContent(path) == IF path = <<"good.json">> THEN GoodJsonText ELSE BadJsonText

\* --output values: none, a path that can be created, a path in a missing directory
OutputArgs == {<<>>, <<"out.json">>, <<"nodir/out.json">>}

CanCreate(path) == path = <<"out.json">>

\* --json values: none, {"a":1}, "é", "\ud800" and a lone '{'
JsonArgs ==
    {<<>>, GoodJsonText, JsonDumps(StrVal(<<233>>)), JsonDumps(StrVal(<<55296>>)),
     BadJsonText}

\* --base64 values: none, the encodings of gzipped 'a' and gzipped {"a":1},
\* a text with incorrect padding, and the encoding of the bytes of 'hello'
Base64Args ==
    {<<>>,
     encode_base64(compress_message(StrVal(<<97>>), 1700000000).val),
     encode_base64(compress_message(DictVal(<< <<(<<97>>), IntVal(1)>> >>), 1700000000).val),
     <<89, 81, 61>>,
     encode_base64(<<104, 101, 108, 108, 111>>)}

ArgSpace ==
    [file : FileArgs, json : JsonArgs, output : OutputArgs, base64 : Base64Args,
     compress : BOOLEAN, decompress : BOOLEAN, firehose : BOOLEAN, verbose : BOOLEAN]

\* one print() call: the format and what fills it
Line(fmt, val) == [fmt |-> fmt, val |-> val]

\* json.loads(text), over the JSON texts of this model: the value whose compact
\* text it is
JsonLoads(text) ==
    Bind(text, LAMBDA t :
    Bind({v \in Messages : JsonDumps(v) = t}, LAMBDA values :
        IF values # {} THEN Ok(CHOOSE v \in values : TRUE)
        ELSE Raise("JSONDecodeError")))

\* load_json_file(file_path)
load_json_file(file_path) ==
    IF ~FileExists(file_path) THEN Raise("FileNotFoundError")
    ELSE Bind(JsonLoads(FileContent(file_path)), LAMBDA parsed :
            IF parsed.ok THEN parsed ELSE Raise("ValueError"))

\* the document save_processed_data(processed_data, output_file) dumps
SavedDocument(processed_data) ==
    [metadata |-> [original_size |-> processed_data.original_size,
                   compressed_size |-> processed_data.compressed_size,
                   encoded_size |-> processed_data.encoded_size,
                   compression_ratio |-> processed_data.compression_ratio,
                   processing_timestamp |-> processed_data.processing_timestamp],
     encoded_data |-> processed_data.encoded_data]

\* with open(path, 'w') as f: json.dump(doc, f, indent=2)
WriteJson(path, doc) ==
    IF CanCreate(path) THEN Ok(<<[path |-> path, fmt |-> "json indent=2", val |-> doc]>>)
    ELSE Raise("FileNotFoundError")

\* fault: the handler reports the error and exits with status 0
ExceptHandlerExitZero(e) == [line |-> Line("Error: {e}", e), code |-> 0]

\* except Exception as e: print(f"Error: {e}", file=sys.stderr); sys.exit(1)
ExceptHandler(e) == [line |-> Line("Error: {e}", e), code |-> 1]

\* what parser.print_help() prints
HelpText == Line("usage: message_processor.py [-h] ...", "help")

(***************************************************************************)
(* main(): the steps.                                                      *)
(***************************************************************************)
Caught(e) ==
    /\ stderr' = Append(stderr, ExceptHandler(e).line)
    /\ exit_code' = ExceptHandler(e).code
    /\ local' = [local EXCEPT !.caught = e]
    /\ pc' = "exited"

\* args = parser.parse_args(): a command line argparse rejects ends the process
\* with status 2, -h prints the help and ends it with status 0
MainParseArgs ==
    /\ pc = "idle"
    /\ call' = [NoCall EXCEPT !.ops = <<"main">>]
    /\ \/ /\ \E a \in ArgSpace : args' = a
          /\ pc' = "try"
          /\ UNCHANGED <<ret, local, stdout, stderr, files, exit_code>>
       \/ /\ stderr' = <<Line("usage: ... error: {}", "argparse")>>
          /\ exit_code' = 2
          /\ pc' = "exited"
          /\ local' = [local EXCEPT !.mode = "usage_error"]
          /\ UNCHANGED <<ret, args, stdout, files>>
       \/ /\ stdout' = <<HelpText>>
          /\ exit_code' = 0
          /\ pc' = "exited"
          /\ local' = [local EXCEPT !.mode = "help_option"]
          /\ UNCHANGED <<ret, args, stderr, files>>

\* fault: --compress is tested before --decompress
SelectModeCompressFirst(a) ==
    IF a.compress THEN "forward"
    ELSE IF a.decompress /\ a.base64 # <<>> THEN "reverse"
    ELSE "help"

\* the mode main() selects: the if / elif / else of the try block
SelectMode(a) ==
    IF a.decompress /\ a.base64 # <<>> THEN "reverse"
    ELSE IF a.compress THEN "forward"
    ELSE "help"

MainDispatch ==
    /\ pc = "try"
    /\ local' = [local EXCEPT !.mode = SelectMode(args)]
    /\ IF SelectMode(args) = "reverse"
       THEN pc' = "decompress" /\ UNCHANGED <<stdout, exit_code>>
       ELSE IF SelectMode(args) = "forward"
       THEN pc' = "load" /\ UNCHANGED <<stdout, exit_code>>
       ELSE /\ stdout' = Append(stdout, HelpText)
            /\ exit_code' = 1
            /\ pc' = "exited"
    /\ UNCHANGED <<call, ret, args, stderr, files>>

\* the reverse pipeline: decode, decompress, print
MainDecompress ==
    /\ pc = "decompress"
    /\ \E decoded_bytes \in {decode_base64(args.base64)} :
       \E decompressed_message \in {decompress_message(decoded_bytes.val)} :
       \E parsed \in {JsonLoads(decompressed_message.val)} :
           IF ~decoded_bytes.ok THEN Caught(decoded_bytes.err) /\ UNCHANGED stdout
           ELSE IF ~decompressed_message.ok
           THEN Caught(decompressed_message.err) /\ UNCHANGED stdout
           ELSE /\ stdout' =
                      stdout
                      \o (IF args.verbose
                          THEN <<Line("=== Decompression Results ===", <<>>),
                                 Line("Decoded size: {} bytes", Len(decoded_bytes.val)),
                                 Line("Decompressed size: {} bytes",
                                      Len(decompressed_message.val)),
                                 Line("", <<>>)>>
                          ELSE <<>>)
                      \o <<Line("Decompressed message:", <<>>),
                           IF parsed.ok THEN Line("json.dumps(parsed, indent=2)", parsed.val)
                           ELSE Line("{decompressed_message}", decompressed_message.val)>>
                /\ local' = [local EXCEPT !.result = decompressed_message]
                /\ exit_code' = 0
                /\ pc' = "exited"
                /\ UNCHANGED stderr
    /\ UNCHANGED <<call, ret, args, files>>

\* the forward pipeline: load the message from --file, else from --json
MainLoad ==
    /\ pc = "load"
    /\ IF args.file = <<>> /\ args.json = <<>>
       THEN /\ stderr' = Append(stderr,
                    Line("Error: Specify --file or --json for compression", <<>>))
            /\ exit_code' = 1
            /\ pc' = "exited"
            /\ UNCHANGED local
       ELSE \E loaded \in {IF args.file # <<>> THEN load_json_file(args.file)
                           ELSE JsonLoads(args.json)} :
                IF ~loaded.ok
                THEN Caught(loaded.err)
                ELSE /\ local' = [local EXCEPT !.message = loaded.val,
                                               !.source = IF args.file # <<>> THEN "file"
                                                          ELSE "json"]
                     /\ pc' = "process"
                     /\ UNCHANGED <<stderr, exit_code>>
    /\ UNCHANGED <<call, ret, args, stdout, files>>

\* the forward pipeline: process the message, print the --verbose diagnostics
MainProcess ==
    /\ pc = "process"
    /\ \E t \in Clocks, n \in Clocks :
        /\ t <= n
        /\ \E result \in {IF args.firehose
                          THEN create_firehose_payload(local.message, <<>>, t, n)
                          ELSE process_message(local.message, t, n)} :
               IF ~result.ok THEN Caught(result.err) /\ UNCHANGED stdout
               ELSE /\ local' = [local EXCEPT !.result = result, !.wrapped = args.firehose]
                    /\ stdout' =
                          stdout
                          \o (IF ~args.verbose THEN <<>>
                              ELSE IF args.firehose
                              THEN <<Line("=== Firehose Payload Created ===", <<>>),
                                     Line("DeliveryStreamName: {}",
                                          result.val.DeliveryStreamName),
                                     Line("Data size: {} characters",
                                          Len(result.val.Record.Data)),
                                     Line("", <<>>)>>
                              ELSE <<Line("=== Processing Results ===", <<>>),
                                     Line("Original size: {} bytes", result.val.original_size),
                                     Line("Compressed size: {} bytes",
                                          result.val.compressed_size),
                                     Line("Encoded size: {} bytes", result.val.encoded_size),
                                     Line("Compression ratio: {}%",
                                          result.val.compression_ratio),
                                     Line("Processing timestamp: {}",
                                          result.val.processing_timestamp),
                                     Line("", <<>>)>>)
                    /\ pc' = "emit"
                    /\ UNCHANGED <<stderr, exit_code>>
    /\ UNCHANGED <<call, ret, args, files>>

\* the forward pipeline: write the result to --output, else print it
MainEmit ==
    /\ pc = "emit"
    /\ LET doc == IF args.firehose THEN local.result.val
                  ELSE SavedDocument(local.result.val)
           written == WriteJson(args.output, doc)
       IN  IF args.output # <<>>
           THEN IF ~written.ok THEN Caught(written.err) /\ UNCHANGED <<stdout, files>>
                ELSE /\ files' = files \o written.val
                     /\ stdout' = IF args.firehose THEN stdout
                                  ELSE Append(stdout, Line("Results saved to: {}", args.output))
                     /\ exit_code' = 0
                     /\ pc' = "exited"
                     /\ UNCHANGED <<stderr, local>>
           ELSE /\ stdout' = IF args.firehose
                             THEN Append(stdout, Line("json.dumps(result, indent=2)", doc))
                             ELSE stdout \o <<Line("Base64 encoded data:", <<>>),
                                              Line("{encoded_data}",
                                                   local.result.val.encoded_data)>>
                /\ exit_code' = 0
                /\ pc' = "exited"
                /\ UNCHANGED <<stderr, local, files>>
    /\ UNCHANGED <<call, ret, args>>

Next ==
    \/ CallCompressMessage
    \/ CallEncodeBase64
    \/ CallDecodeBase64
    \/ CallDecompressMessage
    \/ CallProcessMessage
    \/ CallCreateFirehosePayload
    \/ MainParseArgs
    \/ MainDispatch
    \/ MainDecompress
    \/ MainLoad
    \/ MainProcess
    \/ MainEmit

Spec == Init /\ [][Next]_vars

(***************************************************************************)
(* Properties.                                                             *)
(***************************************************************************)
\* C1, as stated: for every message M, a dict or a string, compress_message
\* returns and decompress_message(decode_base64(encode_base64(compress_message(M))))
\* returns the canonical serialization of M: compact JSON for a dict, the string
\* itself for a string.
C1_RoundTripEveryMessage ==
    LET round_trip == <<"compress_message", "encode_base64", "decode_base64",
                        "decompress_message">>
        canonical == IF call.message.kind = "dict" THEN JsonDumps(call.message)
                     ELSE call.message.text
    IN  (pc = "returned" /\ call.ops # <<>> /\ Len(call.ops) <= 4
         /\ call.ops = SubSeq(round_trip, 1, Len(call.ops)))
        => /\ ret.ok
           /\ call.ops = round_trip => ret.val = canonical

\* C1, amended: for every message M whose canonical serialization holds no lone
\* surrogate code point, each call of the chain returns and the chain returns the
\* canonical serialization of M, whatever the clock reads; compress_message raises
\* for every other message.
C1_RoundTripEncodable ==
    LET round_trip == <<"compress_message", "encode_base64", "decode_base64",
                        "decompress_message">>
        canonical == IF call.message.kind = "dict" THEN JsonDumps(call.message)
                     ELSE call.message.text
        encodable == \A i \in 1..Len(canonical) : ~IsSurrogate(canonical[i])
    IN  (pc = "returned" /\ call.ops # <<>> /\ Len(call.ops) <= 4
         /\ call.ops = SubSeq(round_trip, 1, Len(call.ops)))
        => /\ ret.ok <=> encodable
           /\ call.ops = round_trip => ret.val = canonical

\* C1: the chain of four calls returned the text 'éa', whose first character is two bytes
C1_RoundTripReached ==
    /\ pc = "returned"
    /\ Len(call.ops) = 4
    /\ call.ops[1] = "compress_message"
    /\ call.ops[4] = "decompress_message"
    /\ ret.ok
    /\ ret.val = <<233, 97>>

\* C2, as stated: every invocation of main() ends with exit code 0 or 1, with 0
\* exactly when the selected pipeline ran to completion without error.
C2_ExitCodeEveryInvocation ==
    (pc = "exited" /\ call.ops = <<"main">>)
    => /\ exit_code \in {0, 1}
       /\ exit_code = 0 <=> (/\ local.mode \in {"reverse", "forward"}
                             /\ local.caught = "none"
                             /\ local.result.ok)

\* C2, amended: every invocation of main() whose command line parse_args() accepts
\* ends with exit code 0 or 1: with 1 whenever an error is caught, no mode is
\* selected or the forward pipeline has no input, with 0 exactly when the selected
\* pipeline ran to completion and emitted its result.
C2_ExitCodeAcceptedCommandLine ==
    (pc = "exited" /\ local.mode \in {"reverse", "forward", "help"})
    => /\ exit_code \in {0, 1}
       /\ exit_code = 1 <=> \/ local.caught # "none"
                            \/ local.mode = "help"
                            \/ (local.mode = "forward" /\ args.file = <<>> /\ args.json = <<>>)
       /\ exit_code = 0 <=> (/\ local.caught = "none"
                             /\ local.result.ok
                             /\ stdout # <<>> \/ files # <<>>)

\* C2: the reverse pipeline ended by a caught error of gzip
C2_CaughtErrorReached ==
    /\ pc = "exited"
    /\ local.mode = "reverse"
    /\ local.caught = "BadGzipFile"
    /\ exit_code = 1

\* C3, as stated: for every combination of the other flags, an invocation with
\* --decompress and no --base64 value runs neither pipeline, produces no result
\* and exits with code 1.
C3_DecompressWithoutBase64IsUsageError ==
    (pc = "exited" /\ call.ops = <<"main">> /\ args.decompress /\ args.base64 = <<>>)
    => /\ local.mode \notin {"reverse", "forward"}
       /\ ~local.result.ok
       /\ files = <<>>
       /\ exit_code = 1

\* C4, as stated: if an error is caught at the top level of main(), then
\* `Error: <message>` is printed to stderr, the exit code is 1, and nothing has
\* been emitted to stdout or to the output file.
C4_NoPartialResults ==
    (pc = "exited" /\ local.caught # "none")
    => /\ stderr = <<Line("Error: {e}", local.caught)>>
       /\ exit_code = 1
       /\ stdout = <<>>
       /\ files = <<>>

\* C5, as stated: whenever --output is given and the run succeeds, the result is
\* written to that file and not printed to stdout, in every mode.
C5_OutputFileInEveryMode ==
    (pc = "exited" /\ exit_code = 0 /\ args.output # <<>>
     /\ local.mode \in {"reverse", "forward"})
    => /\ \E k \in 1..Len(files) : files[k].path = args.output
       /\ \A k \in 1..Len(stdout) :
            stdout[k].fmt \notin {"{decompressed_message}", "json.dumps(parsed, indent=2)",
                                  "{encoded_data}", "json.dumps(result, indent=2)"}

\* C6, as stated: decode_base64 returns bytes for a text exactly when the text is
\* well-formed padded base64: a multiple of four characters of the alphabet, the
\* last one or two of which may be '='.
C6_MalformedBase64Rejected ==
    LET t == call.text
        well_formed ==
            /\ Len(t) % 4 = 0
            /\ \A i \in 1..Len(t) :
                \/ B64Value(t[i]) < 64
                \/ /\ t[i] = 61
                   /\ i >= Len(t) - 1
                   /\ t[Len(t)] = 61
    IN  (pc = "returned" /\ call.ops = <<"decode_base64">>) => (ret.ok <=> well_formed)

C8_RatioNegativeIffGrown ==
    (pc = "returned" /\ call.ops = <<"process_message">> /\ ret.ok)
    => LET o == ret.val.original_size
           c == ret.val.compressed_size
           r == ret.val.compression_ratio
           miss == r * o - 10000 * (o - c)
       IN  /\ o > 0 => (2 * miss <= o /\ 0 - 2 * miss <= o)
           /\ o = 0 => r = 0
           /\ call.message = StrVal(<<>>) => (o = 0 /\ r = 0)
           /\ r < 0 <=> c > o

\* C8, amended: the same, but the ratio is negative exactly when original_size > 0
\* and compressed_size exceeds original_size: with original_size = 0 the ratio is
\* 0 although the compressed form, never empty, is the larger.
C8_CompressionRatio ==
    (pc = "returned" /\ call.ops = <<"process_message">> /\ ret.ok)
    => LET o == ret.val.original_size
           c == ret.val.compressed_size
           r == ret.val.compression_ratio
           miss == r * o - 10000 * (o - c)
       IN  /\ o > 0 => (2 * miss <= o /\ 0 - 2 * miss <= o)
           /\ o = 0 => r = 0
           /\ call.message = StrVal(<<>>) => (o = 0 /\ r = 0)
           /\ r < 0 <=> (o > 0 /\ c > o)
           /\ r > 0 => c < o
           /\ c > 0

\* C8: the result for the empty string: original_size 0, ratio 0, a compressed
\* form of twenty bytes
C8_EmptyMessageReached ==
    /\ pc = "returned"
    /\ call.ops = <<"process_message">>
    /\ ret.ok
    /\ call.message = StrVal(<<>>)
    /\ ret.val.original_size = 0
    /\ ret.val.compressed_size = 20
    /\ ret.val.compression_ratio = 0

\* C9: every result of process_message is consistent: original_size is the number
\* of bytes compressed_data decompresses to, which are the UTF-8 bytes of the
\* message's serialization; compressed_size is the length of compressed_data;
\* encoded_data is the base64 encoding of compressed_data; encoded_size is the
\* number of bytes of encoded_data.
C9_ResultConsistent ==
    (pc = "returned" /\ call.ops = <<"process_message">> /\ ret.ok)
    => LET text == IF call.message.kind = "dict" THEN JsonDumps(call.message)
                   ELSE call.message.text
           compressed == GzipDecompress(ret.val.compressed_data)
       IN  /\ compressed.ok
           /\ compressed.val = Utf8Encode(text).val
           /\ ret.val.original_size = Len(compressed.val)
           /\ ret.val.compressed_size = Len(ret.val.compressed_data)
           /\ ret.val.encoded_data = B64Encode(ret.val.compressed_data)
           /\ ret.val.encoded_size = Len(Utf8Encode(ret.val.encoded_data).val)

\* C9: a result for a text whose characters are fewer than its bytes
C9_MultiByteResultReached ==
    /\ pc = "returned"
    /\ call.ops = <<"process_message">>
    /\ ret.ok
    /\ call.message.kind = "str"
    /\ ret.val.original_size > Len(call.message.text)

====
